---- MODULE Spec2Model ----
(***************************************************************************)
(* boost::synchronized<Resource, Mutex> and boost::locked_ptr<Resource,    *)
(* Mutex> (src/boost/synchronized.hpp) as a state machine.                 *)
(*                                                                         *)
(* The program declares the wrappers of src/test.cpp; its threads call     *)
(* lock() on them, construct a locked_ptr from nullptr, move locked_ptr    *)
(* objects and let them leave scope.  The mutex is the capability: lock()  *)
(* blocks while the mutex is held and may throw, unlock() may throw.       *)
(* Mutexes are not copied (std::mutex, the default Mutex, cannot be), so a *)
(* wrapper owns a default constructed mutex or refers to one that lives    *)
(* elsewhere.                                                              *)
(*                                                                         *)
(* Every locked_ptr object gets a fresh identity (1, 2, ...).              *)
(*                                                                         *)
(* Spec is the locking protocol on the wrappers above, with mutexes that   *)
(* may fail.  SpecUse is a program that also uses the resources: it reads  *)
(* and writes them through locked_ptr objects, tells lock() from           *)
(* lock() const, and copies a wrapper.                                     *)
(* SpecViews is a program that wraps one object three times: twice with    *)
(* mutexes of its own choice and once by conversion.                       *)
(***************************************************************************)
EXTENDS Integers, FiniteSets, Sequences, TLC

\* ---- bounds of the model
NumThreads == 2
MaxGuards == 3

Threads == 1..NumThreads
GuardIds == 1..MaxGuards

\* ---- objects
\* nullptr
Null == <<"null", "">>
\* the member resource_ / mutex_ stored by value inside wrapper w
Own(w) == <<"own", w>>
\* objects that live outside every wrapper: `child instance;` and `mock_mutex mutex;`
ExtResource == <<"ext", "instance">>
ExtMutex == <<"ext", "mutex">>
\* a second mutex of the same kind, declared next to `mutex`
ExtMutex2 == <<"ext", "mutex_2">>

\* the wrappers the program declares
WrapperIds == {"child_instance", "parent_instance", "sync_int", "reference"}

\* the wrappers of the program that uses the resources (SpecUse); sync_view and
\* sync_copy are constructed while the program runs
UseIds == {"sync_int", "sync_view", "sync_copy"}

\* the wrappers of the program that wraps `instance` more than once (SpecViews)
ViewIds == {"reference", "base_reference", "reference_2"}

Mutexes == {Own(w) : w \in WrapperIds \cup UseIds \cup ViewIds} \cup {ExtMutex, ExtMutex2}
Resources == {Own(w) : w \in WrapperIds \cup UseIds \cup ViewIds} \cup {ExtResource}

\* the values of a resource: the one a class type or `child instance;` is
\* default constructed with, the 42 of `sync_int(42, mutex)`, the 4 of
\* `ptr->at(3) = 4`
DefaultValue == 0
InitialValue == 42
WrittenValue == 4

\* what a lock() call of the mutex may throw (std::mutex::lock: std::system_error)
\* and what an unlock() call may throw (the mock of test.cpp: std::runtime_error)
LockErrors == {"system_error"}
UnlockErrors == {"runtime_error"}

\* ---- synchronized<Resource, Mutex>: construction
\* A wrapper is the record of what resource_ and mutex_ denote, and of the
\* mutex its constructor was given (Null: none).

\* a faulty binding: a reference-typed resource_ is stored as a value of its own
BindResource_value(w, byRef, arg) == Own(w)

\* Resource is a value type: resource_ is a member of w, initialised from the
\* argument; a reference type: resource_ refers to the argument.
BindResource(w, byRef, arg) == IF byRef THEN arg ELSE Own(w)

\* a faulty binding: every wrapper keeps a mutex of its own, whatever it is given
BindMutex_own(w, arg) == Own(w)

\* mutex_(std::forward<Mutex_Arg>(mutex)): mutex_ refers to the argument
BindMutex(w, arg) == arg

\* a faulty default construction: the wrapper takes the external mutex
synchronized_default_shared(w) ==
    [res |-> Own(w), mtx |-> ExtMutex, arg |-> Null]

\* synchronized() = default
synchronized_default(w) ==
    [res |-> Own(w), mtx |-> Own(w), arg |-> Null]

\* synchronized(Resource_Arg && resource, Mutex_Arg && mutex)
synchronized_resource_mutex(w, byRef, resource, mutex) ==
    [res |-> BindResource(w, byRef, resource), mtx |-> BindMutex(w, mutex), arg |-> mutex]

\* a faulty conversion: the new wrapper refers to other's resource_ but keeps a
\* mutex of its own
synchronized_convert_own_mutex(w, byRef, other) ==
    [res |-> BindResource(w, byRef, other.res), mtx |-> Own(w), arg |-> other.mtx]

\* synchronized(synchronized<Other_resource, Other_mutex> [const] & other)
\*     : synchronized(other.resource_, other.mutex_)
synchronized_convert(w, byRef, other) ==
    synchronized_resource_mutex(w, byRef, other.res, other.mtx)

\* The declarations:
\*   synchronized<child> child_instance;
\*   synchronized<parent &> parent_instance = child_instance;
\*   synchronized<int, mock_mutex &> sync_int(42, mutex);
\*   synchronized<parent &, mock_mutex &> reference {instance, mutex};
Declared ==
    LET child == synchronized_default("child_instance") IN
    [w \in WrapperIds |->
        CASE w = "child_instance" -> child
          [] w = "parent_instance" -> synchronized_convert(w, TRUE, child)
          [] w = "sync_int" -> synchronized_resource_mutex(w, FALSE, ExtResource, ExtMutex)
          [] w = "reference" -> synchronized_resource_mutex(w, TRUE, ExtResource, ExtMutex)]

VARIABLES
    wrappers,      \* the synchronized<> objects
    guards,        \* the locked_ptr objects, by identity
    is_locked,     \* per mutex: is it held
    count_lock,    \* per mutex: calls of lock()
    count_unlock,  \* per mutex: calls of unlock()
    lock_threw,    \* per mutex: calls of lock() that threw
    unlock_threw,  \* per mutex: calls of unlock() that threw
    cycles,        \* per mutex: locked_ptr objects destroyed while they pointed at a resource
    pc,            \* per thread: "idle", "ctor" (inside locked_ptr's constructor), "terminated"
    ctor,          \* per thread: the call in progress, or NoCall
    thrown,        \* the last exception of a lock() call: what the mutex raised, what left lock()
    value,         \* per resource: its value
    written,       \* per resource: <<v>> when v was the last value written through a locked_ptr
    surface        \* per locked_ptr: does it point at Resource ("mutable") or Resource const ("const")

vars == <<wrappers, guards, is_locked, count_lock, count_unlock, lock_threw,
          unlock_threw, cycles, pc, ctor, thrown, value, written, surface>>

\* A locked_ptr: ptr_ and mutex_, the thread whose scope holds it, and how many
\* move constructions lie between it and the constructor that called lock().
\* Of an object whose lifetime is over ("dead"), or never began ("aborted"),
\* only the status stays.
NoGuard == [status |-> "unborn", owner |-> 0, ptr |-> Null, mtx |-> Null, moves |-> 0]

\* A thread's call in progress: the locked_ptr under construction, and whether
\* synchronized::lock constructs it (otherwise the caller does, directly).
NoCall == [g |-> 0, lock |-> FALSE]

NoThrow == [raised |-> "none", out |-> "none"]

\* a faulty construction: resource_ is default-constructed, the argument dropped
InitValue_default(v) == DefaultValue

\* resource_(std::forward<Resource_Arg>(resource)): the value resource_ starts with
InitValue(v) == v

\* the values the declared resources start with
DeclaredValue ==
    [r \in Resources |->
        IF r = Own("sync_int") THEN InitValue(InitialValue) ELSE DefaultValue]

\* what every program starts with, whatever wrappers it declares
Fresh ==
    /\ guards = [g \in GuardIds |-> NoGuard]
    /\ is_locked = [m \in Mutexes |-> FALSE]
    /\ count_lock = [m \in Mutexes |-> 0]
    /\ count_unlock = [m \in Mutexes |-> 0]
    /\ lock_threw = [m \in Mutexes |-> 0]
    /\ unlock_threw = [m \in Mutexes |-> 0]
    /\ cycles = [m \in Mutexes |-> 0]
    /\ pc = [t \in Threads |-> "idle"]
    /\ ctor = [t \in Threads |-> NoCall]
    /\ thrown = NoThrow
    /\ value = DeclaredValue
    /\ written = [r \in Resources |-> <<>>]
    /\ surface = [g \in GuardIds |-> "none"]

Init ==
    /\ wrappers = Declared
    /\ Fresh

\* ---- helpers
Min(S) == CHOOSE x \in S : \A y \in S : x <= y
FreeGuards == {g \in GuardIds : guards[g].status = "unborn"}
Running == \A t \in Threads : pc[t] # "terminated"

\* ---- faulty variants of the decisions of locked_ptr, which the properties
\* below tell from the code's

\* the constructor never locks; locks exactly when it should not; always locks
NeedsLock_never(ptr) == FALSE
NeedsLock_inverted(ptr) == ptr = Null
NeedsLock_always(ptr) == TRUE

\* the destructor never unlocks; always unlocks
NeedsUnlock_never(ptr) == FALSE
NeedsUnlock_always(ptr) == TRUE

\* the move constructor leaves other.ptr_ as it is
MovedFromPtr_kept(ptr) == ptr

\* the move constructor makes up a pointer when other.ptr_ is null
MovedToPtr_made_up(ptr) == IF ptr = Null THEN ExtResource ELSE ptr

\* the destructor without its try block
Catch_rethrow(e) == e

\* a constructor that catches the error of lock() and throws another
Propagate_wrapped(e) == "runtime_error"

\* ---- locked_ptr<Resource, Mutex>

\* if(ptr != nullptr) in the constructor
NeedsLock(ptr) == ptr # Null

\* if (ptr_ != nullptr) in the destructor
NeedsUnlock(ptr) == ptr # Null

\* ptr_(other.ptr_) in the move constructor
MovedToPtr(ptr) == ptr

\* other.ptr_ = nullptr in the move constructor
MovedFromPtr(ptr) == Null

\* try{mutex_.unlock();} catch (...){}: what leaves the destructor when
\* unlock() throws e
Catch(e) == "none"

\* mutex_.lock() is called outside any try block: what leaves the constructor,
\* and lock(), when it throws e
Propagate(e) == e

\* member initialisers ptr_{ptr}, mutex_(mutex); the body has not run yet
Enter(t, ptr, mtx, via) ==
    /\ Running
    /\ pc[t] = "idle"
    /\ FreeGuards # {}
    /\ LET g == Min(FreeGuards) IN
        /\ guards' = [guards EXCEPT ![g] =
              [NoGuard EXCEPT !.status = "ctor", !.owner = t, !.ptr = ptr, !.mtx = mtx]]
        /\ ctor' = [ctor EXCEPT ![t] = [g |-> g, lock |-> via]]
    /\ pc' = [pc EXCEPT ![t] = "ctor"]
    /\ UNCHANGED <<wrappers, is_locked, count_lock, count_unlock, lock_threw,
                   unlock_threw, cycles, thrown>>

\* a faulty lock(): it hands the constructor a null pointer
lock_passes_null(t, w) ==
    Enter(t, Null, wrappers[w].mtx, TRUE)

\* locked_mutable_ptr lock(): locked_mutable_ptr(std::addressof(resource_), mutex_)
lock(t, w) ==
    Enter(t, wrappers[w].res, wrappers[w].mtx, TRUE)

\* a faulty lock() const: readers are kept apart by a mutex of their own
lock_const_reader_mutex(t, w) ==
    Enter(t, wrappers[w].res, Own(w), TRUE)

\* locked_const_ptr lock() const: locked_const_ptr(std::addressof(resource_), mutex_)
lock_const(t, w) ==
    Enter(t, wrappers[w].res, wrappers[w].mtx, TRUE)

\* boost::locked_ptr<char, std::mutex> ptr{nullptr, m} written by the caller itself
locked_ptr_null(t) ==
    Enter(t, Null, ExtMutex, FALSE)

\* a faulty constructor: the mutex is recursive, the thread that holds it may
\* lock it again
locked_ptr_ctor_recursive(t) ==
    /\ Running
    /\ pc[t] = "ctor"
    /\ LET g == ctor[t].g
           m == guards[g].mtx IN
        /\ IF NeedsLock(guards[g].ptr)
           THEN /\ \/ ~is_locked[m]
                   \/ \E h \in GuardIds :
                         /\ guards[h].status = "live" /\ guards[h].ptr # Null
                         /\ guards[h].owner = t /\ guards[h].mtx = m
                /\ is_locked' = [is_locked EXCEPT ![m] = TRUE]
                /\ count_lock' = [count_lock EXCEPT ![m] = @ + 1]
           ELSE UNCHANGED <<is_locked, count_lock>>
        /\ guards' = [guards EXCEPT ![g].status = "live"]
    /\ pc' = [pc EXCEPT ![t] = "idle"]
    /\ ctor' = [ctor EXCEPT ![t] = NoCall]
    /\ UNCHANGED <<wrappers, count_unlock, lock_threw, unlock_threw, cycles, thrown>>

\* the constructor's body completes: mutex_.lock() returned (it blocks while the
\* mutex is held), or ptr was null and nothing was called
locked_ptr_ctor(t) ==
    /\ Running
    /\ pc[t] = "ctor"
    /\ LET g == ctor[t].g
           m == guards[g].mtx IN
        /\ IF NeedsLock(guards[g].ptr)
           THEN /\ ~is_locked[m]
                /\ is_locked' = [is_locked EXCEPT ![m] = TRUE]
                /\ count_lock' = [count_lock EXCEPT ![m] = @ + 1]
           ELSE UNCHANGED <<is_locked, count_lock>>
        /\ guards' = [guards EXCEPT ![g].status = "live"]
    /\ pc' = [pc EXCEPT ![t] = "idle"]
    /\ ctor' = [ctor EXCEPT ![t] = NoCall]
    /\ UNCHANGED <<wrappers, count_unlock, lock_threw, unlock_threw, cycles, thrown>>

\* mutex_.lock() throws e: the constructor does not complete, the object never
\* lives and its destructor never runs; the mutex is as it was
locked_ptr_ctor_throws(t, e) ==
    /\ Running
    /\ pc[t] = "ctor"
    /\ e \in LockErrors
    /\ LET g == ctor[t].g
           m == guards[g].mtx IN
        /\ NeedsLock(guards[g].ptr)
        /\ count_lock' = [count_lock EXCEPT ![m] = @ + 1]
        /\ lock_threw' = [lock_threw EXCEPT ![m] = @ + 1]
        /\ guards' = [guards EXCEPT ![g] = [NoGuard EXCEPT !.status = "aborted"]]
    /\ thrown' = [raised |-> e, out |-> Propagate(e)]
    /\ pc' = [pc EXCEPT ![t] = "idle"]
    /\ ctor' = [ctor EXCEPT ![t] = NoCall]
    /\ UNCHANGED <<wrappers, is_locked, count_unlock, unlock_threw, cycles>>

\* a faulty move constructor: it unlocks the mutex of the object it empties
locked_ptr_move_unlocks(t, other) ==
    /\ Running
    /\ pc[t] = "idle"
    /\ other \in GuardIds
    /\ guards[other].status = "live"
    /\ guards[other].owner = t
    /\ FreeGuards # {}
    /\ LET g == Min(FreeGuards) IN
        guards' = [guards EXCEPT
            ![g] = [guards[other] EXCEPT !.ptr = MovedToPtr(guards[other].ptr),
                                         !.moves = @ + 1],
            ![other].ptr = MovedFromPtr(guards[other].ptr)]
    /\ count_unlock' = [count_unlock EXCEPT ![guards[other].mtx] = @ + 1]
    /\ is_locked' = [is_locked EXCEPT ![guards[other].mtx] = FALSE]
    /\ UNCHANGED <<wrappers, count_lock, lock_threw, unlock_threw, cycles, pc, ctor, thrown>>

\* locked_ptr(locked_ptr && other) noexcept
locked_ptr_move(t, other) ==
    /\ Running
    /\ pc[t] = "idle"
    /\ other \in GuardIds
    /\ guards[other].status = "live"
    /\ guards[other].owner = t
    /\ FreeGuards # {}
    /\ LET g == Min(FreeGuards) IN
        guards' = [guards EXCEPT
            ![g] = [guards[other] EXCEPT !.ptr = MovedToPtr(guards[other].ptr),
                                         !.moves = @ + 1],
            ![other].ptr = MovedFromPtr(guards[other].ptr)]
    /\ UNCHANGED <<wrappers, is_locked, count_lock, count_unlock, lock_threw,
                   unlock_threw, cycles, pc, ctor, thrown>>

\* ~locked_ptr() noexcept, run when the scope that holds g ends, on whatever
\* path.  `e` is what mutex_.unlock() does: "none" (it returns) or the error it
\* throws; `freed` is whether a throwing unlock() released the mutex all the same.
locked_ptr_dtor(t, g, e, freed) ==
    /\ Running
    /\ pc[t] = "idle"
    /\ g \in GuardIds
    /\ guards[g].status = "live"
    /\ guards[g].owner = t
    /\ guards' = [guards EXCEPT ![g] = [NoGuard EXCEPT !.status = "dead"]]
    /\ cycles' = [cycles EXCEPT ![guards[g].mtx] = IF guards[g].ptr # Null THEN @ + 1 ELSE @]
    /\ LET m == guards[g].mtx IN
        IF NeedsUnlock(guards[g].ptr)
        THEN /\ e \in UnlockErrors \cup {"none"}
             /\ freed \in BOOLEAN
             /\ e = "none" => freed
             /\ count_unlock' = [count_unlock EXCEPT ![m] = @ + 1]
             /\ is_locked' = [is_locked EXCEPT ![m] = IF freed THEN FALSE ELSE @]
             /\ IF e = "none"
                THEN UNCHANGED <<unlock_threw, pc>>
                ELSE /\ unlock_threw' = [unlock_threw EXCEPT ![m] = @ + 1]
                     \* an exception that leaves a noexcept destructor ends the program
                     /\ pc' = IF Catch(e) = "none" THEN pc
                              ELSE [u \in Threads |-> "terminated"]
        ELSE /\ e = "none"
             /\ freed
             /\ UNCHANGED <<count_unlock, is_locked, unlock_threw, pc>>
    /\ UNCHANGED <<wrappers, count_lock, lock_threw, ctor, thrown>>

\* the locking protocol: the resources are not used and no locked_ptr is told
\* from another by its type
Unused == UNCHANGED <<value, written, surface>>

Next ==
    \/ \E t \in Threads, w \in WrapperIds : lock(t, w) /\ Unused
    \/ \E t \in Threads, w \in WrapperIds : lock_const(t, w) /\ Unused
    \/ \E t \in Threads : locked_ptr_null(t) /\ Unused
    \/ \E t \in Threads : locked_ptr_ctor(t) /\ Unused
    \/ \E t \in Threads, e \in LockErrors : locked_ptr_ctor_throws(t, e) /\ Unused
    \/ \E t \in Threads, other \in GuardIds : locked_ptr_move(t, other) /\ Unused
    \/ \E t \in Threads, g \in GuardIds, e \in UnlockErrors \cup {"none"}, freed \in BOOLEAN :
          locked_ptr_dtor(t, g, e, freed) /\ Unused

Spec == Init /\ [][Next]_vars

\* ---- the program that uses the resources

\* using locked_mutable_ptr = locked_ptr<resource_type, mutex_type>
locked_mutable_ptr == "mutable"

\* using locked_const_ptr = locked_ptr<resource_type const, mutex_type>
locked_const_ptr == "const"

\* The types of the locked_ptr objects after a step: an object keeps its type
\* for its lifetime, an object made by the step has type `type`.
Typed(type) ==
    surface' = [g \in GuardIds |->
        CASE guards'[g].status \notin {"ctor", "live"} -> "none"
          [] guards[g].status = "unborn" -> type
          [] OTHER -> surface[g]]

\* Resource & operator* () const noexcept: return *ptr_ (operator->: return ptr_):
\* the resource the caller reaches
operator_star(g) == guards[g].ptr

\* `*ptr = v;`, `ptr->at(3) = 4;`: the owner of a locked_ptr writes the resource
\* through it.  The program dereferences no locked_ptr whose ptr_ is null, and a
\* locked_ptr<Resource const> does not compile as the target of a write.
assign(t, g, v) ==
    /\ Running
    /\ pc[t] = "idle"
    /\ g \in GuardIds
    /\ guards[g].status = "live"
    /\ guards[g].owner = t
    /\ guards[g].ptr # Null
    /\ surface[g] = locked_mutable_ptr
    /\ value' = [value EXCEPT ![operator_star(g)] = v]
    /\ written' = [written EXCEPT ![operator_star(g)] = <<v>>]
    /\ UNCHANGED <<wrappers, guards, is_locked, count_lock, count_unlock, lock_threw,
                   unlock_threw, cycles, pc, ctor, thrown, surface>>

\* a declared wrapper whose constructor has not run yet
NotConstructed == [res |-> Null, mtx |-> Null, arg |-> Null]
Constructed(w) == wrappers[w] # NotConstructed

\* synchronized(synchronized const &) = default copies member by member: a
\* member of reference type refers to what other's refers to, a member held by
\* value is a copy of other's
CopyResource(w, o, other) == IF other.res = Own(o) THEN Own(w) ELSE other.res

\* a faulty copy: the copy gets a mutex of its own although Mutex is a reference
CopyMutex_own(w, o, other) == Own(w)

CopyMutex(w, o, other) == IF other.mtx = Own(o) THEN Own(w) ELSE other.mtx
synchronized_copy(w, o, other) ==
    [res |-> CopyResource(w, o, other), mtx |-> CopyMutex(w, o, other), arg |-> other.mtx]

\* `auto const & c = sync_int; synchronized<int, mock_mutex &> sync_copy(c);`
\* run by thread t: resource_ is a value and is read from sync_int
copy(t) ==
    /\ Running
    /\ pc[t] = "idle"
    /\ ~Constructed("sync_copy")
    /\ LET made == synchronized_copy("sync_copy", "sync_int", wrappers["sync_int"]) IN
        /\ wrappers' = [wrappers EXCEPT !["sync_copy"] = made]
        /\ value' = IF made.res = Own("sync_copy")
                    THEN [value EXCEPT ![made.res] = value[wrappers["sync_int"].res]]
                    ELSE value
    /\ UNCHANGED <<guards, is_locked, count_lock, count_unlock, lock_threw,
                   unlock_threw, cycles, pc, ctor, thrown, written, surface>>

\* `synchronized<int &, mock_mutex &> sync_view(sync_int);` run by thread t:
\* resource_ is a reference and is bound to sync_int's, nothing is read
convert(t) ==
    /\ Running
    /\ pc[t] = "idle"
    /\ ~Constructed("sync_view")
    /\ wrappers' = [wrappers EXCEPT
          !["sync_view"] = synchronized_convert("sync_view", TRUE, wrappers["sync_int"])]
    /\ UNCHANGED <<guards, is_locked, count_lock, count_unlock, lock_threw,
                   unlock_threw, cycles, pc, ctor, thrown, value, written, surface>>

\* The declarations:
\*   synchronized<int, mock_mutex &> sync_int(42, mutex);
\*   sync_view and sync_copy, not constructed yet
DeclaredUse ==
    [w \in UseIds |->
        IF w = "sync_int"
        THEN synchronized_resource_mutex(w, FALSE, ExtResource, ExtMutex)
        ELSE NotConstructed]

InitUse ==
    /\ wrappers = DeclaredUse
    /\ Fresh

Values == {InitialValue, WrittenValue}

\* the mutexes of this program do not fail
NextUse ==
    \/ \E t \in Threads, w \in UseIds :
          Constructed(w) /\ lock(t, w) /\ Typed(locked_mutable_ptr) /\ UNCHANGED <<value, written>>
    \/ \E t \in Threads, w \in UseIds :
          Constructed(w) /\ lock_const(t, w) /\ Typed(locked_const_ptr) /\ UNCHANGED <<value, written>>
    \/ \E t \in Threads : locked_ptr_ctor(t) /\ Typed("none") /\ UNCHANGED <<value, written>>
    \/ \E t \in Threads, other \in GuardIds :
          locked_ptr_move(t, other) /\ Typed(surface[other]) /\ UNCHANGED <<value, written>>
    \/ \E t \in Threads, g \in GuardIds :
          locked_ptr_dtor(t, g, "none", TRUE) /\ Typed("none") /\ UNCHANGED <<value, written>>
    \/ \E t \in Threads, g \in GuardIds, v \in Values : assign(t, g, v)
    \/ \E t \in Threads : copy(t)
    \/ \E t \in Threads : convert(t)

SpecUse == InitUse /\ [][NextUse]_vars

\* ---- a program with several wrappers of one object
\* The declarations:
\*   child instance;  mock_mutex mutex, mutex_2;
\*   synchronized<parent &, mock_mutex &> reference {instance, mutex};
\*   synchronized<parent &, mock_mutex &> base_reference (reference);
\*   synchronized<parent &, mock_mutex &> reference_2 {instance, mutex_2};
DeclaredViews ==
    LET reference == synchronized_resource_mutex("reference", TRUE, ExtResource, ExtMutex) IN
    [w \in ViewIds |->
        CASE w = "reference" -> reference
          [] w = "base_reference" -> synchronized_convert(w, TRUE, reference)
          [] w = "reference_2" -> synchronized_resource_mutex(w, TRUE, ExtResource, ExtMutex2)]

InitViews ==
    /\ wrappers = DeclaredViews
    /\ Fresh

\* the mutexes of this program do not fail
NextViews ==
    \/ \E t \in Threads, w \in ViewIds : lock(t, w) /\ Unused
    \/ \E t \in Threads : locked_ptr_ctor(t) /\ Unused
    \/ \E t \in Threads, other \in GuardIds : locked_ptr_move(t, other) /\ Unused
    \/ \E t \in Threads, g \in GuardIds : locked_ptr_dtor(t, g, "none", TRUE) /\ Unused

SpecViews == InitViews /\ [][NextViews]_vars

\* ---- vocabulary of the properties

\* a locked_ptr is Owning: alive with a non-null ptr_; Released: alive with a null ptr_
Owning(g) == guards[g].status = "live" /\ guards[g].ptr # Null
Released(g) == guards[g].status = "live" /\ guards[g].ptr = Null
OwningOn(m) == {g \in GuardIds : Owning(g) /\ guards[g].mtx = m}

\* g is what w.lock() constructs: it points at w's resource_ and refers to w's mutex_
ObtainedThrough(g, w) ==
    guards[g].ptr = wrappers[w].res /\ guards[g].mtx = wrappers[w].mtx

\* w1 and w2 were constructed to share a lock: both were given the same mutex, or
\* one was converted from the other and so was given the other's mutex_
SharedByConstruction(w1, w2) ==
    /\ w1 # w2
    /\ \/ wrappers[w1].arg # Null /\ wrappers[w1].arg = wrappers[w2].arg
       \/ wrappers[w2].arg = wrappers[w1].mtx
       \/ wrappers[w1].arg = wrappers[w2].mtx

\* steps, told by what they do to an object
CtorReturns(g) == guards[g].status = "ctor" /\ guards'[g].status = "live"
CtorThrows(g) == guards[g].status = "ctor" /\ guards'[g].status = "aborted"
Destroyed(g) == guards[g].status = "live" /\ guards'[g].status = "dead"
MovedInto(g) == guards[g].status = "unborn" /\ guards'[g].status = "live"

TypeOK ==
    /\ \A g \in GuardIds : guards[g].status \in {"unborn", "ctor", "live", "dead", "aborted"}
    /\ \A t \in Threads : pc[t] \in {"idle", "ctor", "terminated"}

\* C1: for every mutex, at most one live locked_ptr is Owning at any instant,
\* whatever the number of threads that call lock() on the wrappers bound to it.
C1_MutualExclusion ==
    \A m \in Mutexes : Cardinality(OwningOn(m)) <= 1

\* C1 witness: one thread holds an Owning locked_ptr while another thread is
\* inside lock() on a wrapper bound to the same mutex.
C1_Witness ==
    \E g \in GuardIds, t \in Threads :
        /\ Owning(g)
        /\ guards[g].owner # t
        /\ pc[t] = "ctor"
        /\ ctor[t].lock
        /\ guards[ctor[t].g].mtx = guards[g].mtx

\* C2: whenever lock() (mutable or const) returns, the locked_ptr it returns is
\* Owning and the wrapper's mutex, free just before, is held for it and for no
\* other locked_ptr; lock() leaves its constructor call only by returning such
\* an object or by the exception of a failed mutex lock().
C2_LockReturnsOwning ==
    [][\A t \in Threads :
        (pc[t] = "ctor" /\ ctor[t].lock /\ pc'[t] # "ctor") =>
            LET g == ctor[t].g
                m == guards[g].mtx IN
            \/ CtorThrows(g)
            \/ /\ CtorReturns(g)
               /\ guards'[g].ptr # Null
               /\ ~is_locked[m]
               /\ is_locked'[m]
               /\ count_lock'[m] = count_lock[m] + 1
               /\ \A h \in GuardIds \ {g} :
                      ~(guards'[h].status = "live" /\ guards'[h].ptr # Null
                          /\ guards'[h].mtx = m)]_vars

\* C2 witness: lock() on child_instance has returned an Owning locked_ptr.
C2_Witness ==
    \E g \in GuardIds :
        /\ Owning(g)
        /\ guards[g].moves = 0
        /\ guards[g].mtx = Own("child_instance")
        /\ is_locked[guards[g].mtx]

\* C3 as stated: once every locked_ptr has been destroyed, no mutex is held.
C3_Original ==
    (\A g \in GuardIds : guards[g].status \notin {"ctor", "live"}) =>
        \A m \in Mutexes : ~is_locked[m]

\* C3 as amended: a mutex with no Owning locked_ptr is free, unless an unlock()
\* call on it threw (the destructor swallows that, and the mutex may stay held).
C3_ReleasedUnlessUnlockThrew ==
    \A m \in Mutexes :
        (OwningOn(m) = {} /\ unlock_threw[m] = 0) => ~is_locked[m]

\* C3 witness: an Owning locked_ptr was destroyed and its mutex is free again.
C3_Witness ==
    \E m \in Mutexes :
        /\ cycles[m] = 1
        /\ count_lock[m] = 1
        /\ OwningOn(m) = {}
        /\ unlock_threw[m] = 0
        /\ ~is_locked[m]

\* C4 as stated: the mutex is free just before lock() returns, held in every
\* state in which the returned locked_ptr (or the one it was moved into) is
\* Owning, and free right after that object's destruction.
C4_Original ==
    [][/\ \A g \in GuardIds : Owning(g) => is_locked[guards[g].mtx]
       /\ \A g \in GuardIds : (CtorReturns(g) /\ guards[g].ptr # Null) =>
              ~is_locked[guards[g].mtx] /\ is_locked'[guards[g].mtx]
       /\ \A g \in GuardIds : (Owning(g) /\ Destroyed(g)) =>
              ~is_locked'[guards[g].mtx]]_vars

\* C4 as amended: as stated, but the mutex is free right after the destruction
\* only when the unlock() call of the destructor did not throw.
C4_HeldForLifetime ==
    [][/\ \A g \in GuardIds : Owning(g) => is_locked[guards[g].mtx]
       /\ \A g \in GuardIds : (CtorReturns(g) /\ guards[g].ptr # Null) =>
              ~is_locked[guards[g].mtx] /\ is_locked'[guards[g].mtx]
       /\ \A g \in GuardIds :
              (Owning(g) /\ Destroyed(g) /\ unlock_threw' = unlock_threw) =>
              ~is_locked'[guards[g].mtx]]_vars

\* C4 witness: a mutex that went through one whole cycle is held again by a
\* second Owning locked_ptr.
C4_Witness ==
    \E m \in Mutexes :
        /\ cycles[m] = 1
        /\ unlock_threw[m] = 0
        /\ OwningOn(m) # {}
        /\ is_locked[m]

\* C5: every completed cycle (an Owning locked_ptr made and destroyed) accounts
\* for exactly one lock() call and one unlock() call: a mutex has seen as many
\* unlock() calls as completed cycles, and as many lock() calls as completed
\* cycles, cycles in progress and lock() calls that threw; so after n completed
\* cycles and nothing else it has seen n lock() and n unlock() calls.
C5_CallsBalanced ==
    \A m \in Mutexes :
        /\ count_unlock[m] = cycles[m]
        /\ count_lock[m] = cycles[m] + Cardinality(OwningOn(m)) + lock_threw[m]

\* C5 witness: two completed cycles on one mutex, two lock() and two unlock() calls.
C5_Witness ==
    \E m \in Mutexes :
        /\ cycles[m] = 2
        /\ OwningOn(m) = {}
        /\ lock_threw[m] = 0
        /\ count_lock[m] = 2
        /\ count_unlock[m] = 2

\* C6: a move construction makes the new locked_ptr what the source was and the
\* source Released, and calls neither lock() nor unlock(); the destruction of a
\* Released locked_ptr calls nothing; so when the mutex has seen one lock() call,
\* the destruction of the Owning locked_ptr, however often it was moved, leaves
\* the mutex with exactly one lock() and one unlock() call.
C6_MoveTransfers ==
    [][/\ \A dst \in GuardIds : MovedInto(dst) =>
              /\ \E src \in GuardIds \ {dst} :
                    /\ guards[src].status = "live"
                    /\ guards'[src].status = "live"
                    /\ guards'[src].ptr = Null
                    /\ guards'[dst].ptr = guards[src].ptr
                    /\ guards'[dst].mtx = guards[src].mtx
                    /\ guards'[dst].moves = guards[src].moves + 1
              /\ UNCHANGED <<is_locked, count_lock, count_unlock>>
       /\ \A g \in GuardIds : (Released(g) /\ Destroyed(g)) =>
              UNCHANGED <<is_locked, count_lock, count_unlock>>
       /\ \A g \in GuardIds :
              (Owning(g) /\ Destroyed(g) /\ count_lock[guards[g].mtx] = 1
                  /\ lock_threw[guards[g].mtx] = 0) =>
              /\ count_lock'[guards[g].mtx] = 1
              /\ count_unlock'[guards[g].mtx] = 1]_vars

\* C6 witness: a locked_ptr was moved twice; the twice-moved object is Owning,
\* both objects it came from are destroyed, and the mutex has seen one lock()
\* call and no unlock() call.
C6_Witness ==
    \E g \in GuardIds :
        /\ Owning(g)
        /\ guards[g].moves = 2
        /\ \A h \in GuardIds \ {g} : guards[h].status = "dead"
        /\ count_lock[guards[g].mtx] = 1
        /\ count_unlock[guards[g].mtx] = 0

\* C7: the construction of a locked_ptr from a null pointer calls nothing and
\* leaves every mutex as it was, the object is Released, and its destruction
\* calls nothing; it holds nothing: while its mutex has no Owning locked_ptr (and
\* was not left held by a throwing unlock()) the mutex is free to be acquired.
C7_NullIsReleased ==
    [][/\ \A g \in GuardIds : (CtorReturns(g) /\ guards[g].ptr = Null) =>
              /\ Released(g)'
              /\ UNCHANGED <<is_locked, count_lock, count_unlock>>
       /\ \A g \in GuardIds : (Released(g) /\ guards[g].moves = 0 /\ Destroyed(g)) =>
              UNCHANGED <<is_locked, count_lock, count_unlock>>
       /\ \A g \in GuardIds :
              (Released(g) /\ OwningOn(guards[g].mtx) = {}
                  /\ unlock_threw[guards[g].mtx] = 0) =>
              ~is_locked[guards[g].mtx]]_vars

\* C7 witness: while a locked_ptr constructed from nullptr is alive, another
\* thread has acquired the same mutex.
C7_Witness ==
    \E g, h \in GuardIds :
        /\ g < h
        /\ Released(g)
        /\ Owning(h)
        /\ guards[h].mtx = guards[g].mtx
        /\ guards[h].owner # guards[g].owner
        /\ \A k \in GuardIds : guards[k].moves = 0 /\ guards[k].status # "dead"

\* C8: when the unlock() call of a destructor throws, nothing leaves the
\* destructor: the program keeps running and every thread is where it was, the
\* object is destroyed, and unlock() was called once.
C8_UnlockThrowSwallowed ==
    [][\A m \in Mutexes : unlock_threw'[m] # unlock_threw[m] =>
          /\ Running'
          /\ pc' = pc
          /\ unlock_threw'[m] = unlock_threw[m] + 1
          /\ count_unlock'[m] = count_unlock[m] + 1
          /\ \E g \in GuardIds : Owning(g) /\ guards[g].mtx = m /\ Destroyed(g)]_vars

\* C8 witness: an unlock() call threw and the program runs on: a later
\* locked_ptr is alive.
C8_Witness ==
    \E m \in Mutexes, g \in GuardIds :
        /\ unlock_threw[m] = 1
        /\ count_unlock[m] = 1
        /\ Running
        /\ guards[g].status = "live"

\* C9: when the lock() call of the constructor throws, what leaves lock() is
\* the error the mutex raised, the object never lives (and stays that way), the
\* mutex saw one lock() call and no unlock() call, and it is held or free as before.
C9_LockThrowPropagates ==
    [][/\ \A g \in GuardIds : CtorThrows(g) =>
              LET m == guards[g].mtx IN
              /\ thrown'.raised \in LockErrors
              /\ thrown'.out = thrown'.raised
              /\ pc'[guards[g].owner] = "idle"
              /\ count_lock'[m] = count_lock[m] + 1
              /\ lock_threw'[m] = lock_threw[m] + 1
              /\ UNCHANGED <<count_unlock, is_locked, cycles>>
       /\ \A g \in GuardIds : guards[g].status = "aborted" => guards'[g].status = "aborted"
       /\ \A m \in Mutexes : lock_threw'[m] # lock_threw[m] =>
              \E g \in GuardIds : CtorThrows(g) /\ guards[g].mtx = m]_vars

\* C9 witness: a lock() call threw inside lock() of a wrapper; the caller has
\* the error and there is no object.
C9_Witness ==
    \E g \in GuardIds, m \in Mutexes :
        /\ guards[g].status = "aborted"
        /\ lock_threw[m] = 1
        /\ count_lock[m] = 1
        /\ count_unlock[m] = 0
        /\ thrown.out = "system_error"

\* C10: for two distinct wrappers constructed to share a lock (both given the
\* same mutex, or one converted from the other), while a locked_ptr obtained
\* through one is Owning, lock() through the other does not return.
C10_SharedDomainBlocks ==
    [][\A w1, w2 \in WrapperIds : SharedByConstruction(w1, w2) =>
          \A t \in Threads :
              (/\ pc[t] = "ctor"
               /\ ctor[t].lock
               /\ ObtainedThrough(ctor[t].g, w2)
               /\ \E g \in GuardIds : Owning(g) /\ ObtainedThrough(g, w1)) =>
              ~CtorReturns(ctor[t].g)]_vars

\* C10 witness: a thread is inside reference.lock() while another thread holds
\* the Owning locked_ptr of sync_int.lock(), and the other way round for the
\* converted pair: inside child_instance.lock() while parent_instance's is held.
C10_Witness ==
    \E t \in Threads, g \in GuardIds :
        /\ pc[t] = "ctor"
        /\ ctor[t].lock
        /\ Owning(g)
        /\ guards[g].owner # t
        /\ \/ ObtainedThrough(ctor[t].g, "reference") /\ ObtainedThrough(g, "sync_int")
           \/ ObtainedThrough(ctor[t].g, "sync_int") /\ ObtainedThrough(g, "reference")

\* C11: lock() const takes the same exclusive mutex as lock(): an Owning
\* locked_ptr<Resource const> points at the resource_ and holds the mutex_ of a
\* wrapper exactly as a locked_ptr<Resource> does, and while it is Owning no
\* other locked_ptr on that mutex, const or not, is Owning.
C11_ConstTakesSameLock ==
    \A g \in GuardIds :
        (Owning(g) /\ surface[g] = locked_const_ptr) =>
            /\ is_locked[guards[g].mtx]
            /\ \E w \in UseIds : Constructed(w) /\ ObtainedThrough(g, w)
            /\ \A h \in GuardIds \ {g} :
                  ~(Owning(h) /\ guards[h].mtx = guards[g].mtx)

\* C11 witness: a thread holds an Owning locked_ptr<Resource const> and another
\* thread is inside lock() const on the same mutex; before that, a call of
\* lock() had to wait as well (a locked_ptr<Resource> cycle is complete).
C11_Witness ==
    \E g \in GuardIds, t \in Threads :
        /\ Owning(g)
        /\ surface[g] = locked_const_ptr
        /\ guards[g].owner # t
        /\ pc[t] = "ctor"
        /\ surface[ctor[t].g] = locked_const_ptr
        /\ guards[ctor[t].g].mtx = guards[g].mtx
        /\ cycles[guards[g].mtx] = 1

\* steps that touch a resource r: the copy constructor reads other.resource_,
\* an assignment through a locked_ptr writes *ptr_
CopyReads(r) ==
    ~Constructed("sync_copy") /\ Constructed("sync_copy")' /\ r = wrappers["sync_int"].res
Writes(r) == written'[r] # written[r]

\* a wrapper on r has its mutex held by an Owning locked_ptr
Guarded(r) ==
    \E w \in UseIds :
        Constructed(w) /\ wrappers[w].res = r /\ OwningOn(wrappers[w].mtx) # {}

\* C12: the resource is reachable only through an Owning locked_ptr: every step
\* of a wrapper or locked_ptr operation that reads or writes a wrapper's
\* resource_ (an access through a locked_ptr, a copy of the wrapper) happens
\* while an Owning locked_ptr on that wrapper's mutex exists.
C12_Original ==
    [][\A r \in Resources : (CopyReads(r) \/ Writes(r)) => Guarded(r)]_vars

\* what a dereference of a locked_ptr on r has to yield: the value last assigned
\* through a locked_ptr, or the value r was constructed with
Observed(r) == IF written[r] = <<>> THEN DeclaredValue[r] ELSE written[r][1]

\* C13: the aliasing conversion preserves the identity of the resource: the
\* locked_ptr objects of sync_view (converted from sync_int) point at the very
\* resource_ of sync_int and hold its mutex_, so they are the locked_ptr objects
\* of sync_int, and a dereference of one yields what was last written through
\* a locked_ptr of either view.
C13_AliasSameResource ==
    Constructed("sync_view") =>
        /\ wrappers["sync_view"].res = wrappers["sync_int"].res
        /\ \A g \in GuardIds :
              (guards[g].status \in {"ctor", "live"} /\ guards[g].ptr # Null) =>
                  (ObtainedThrough(g, "sync_view") <=> ObtainedThrough(g, "sync_int"))
        /\ \A g \in GuardIds :
              (Owning(g) /\ ObtainedThrough(g, "sync_view")) =>
                  value[operator_star(g)] = Observed(wrappers["sync_int"].res)

\* C13 witness: sync_view exists, WrittenValue was assigned through an earlier
\* locked_ptr<int>, and a later locked_ptr<int const> (which cannot have
\* written it) obtained on the shared resource is Owning and reads it.
C13_Witness ==
    /\ Constructed("sync_view")
    /\ \E g \in GuardIds :
          /\ Owning(g)
          /\ ObtainedThrough(g, "sync_view")
          /\ surface[g] = locked_const_ptr
          /\ written[operator_star(g)] = <<WrittenValue>>
          /\ value[operator_star(g)] = WrittenValue
          /\ cycles[guards[g].mtx] >= 1

\* C14: sync_int has a reference-typed mutex; its copy sync_copy refers to the
\* same mutex, and while a locked_ptr obtained through one of the two is
\* Owning, lock() through the other does not return.
C14_CopySharesLock ==
    [][Constructed("sync_copy") =>
          /\ wrappers["sync_copy"].mtx = wrappers["sync_int"].mtx
          /\ \A t \in Threads :
             \A pair \in {<<"sync_int", "sync_copy">>, <<"sync_copy", "sync_int">>} :
                (/\ pc[t] = "ctor"
                 /\ ctor[t].lock
                 /\ ObtainedThrough(ctor[t].g, pair[2])
                 /\ \E g \in GuardIds : Owning(g) /\ ObtainedThrough(g, pair[1])) =>
                ~CtorReturns(ctor[t].g)]_vars

\* C14 witness: a thread is inside sync_copy.lock() while another thread holds
\* the Owning locked_ptr of sync_int.lock(), or the other way round.
C14_Witness ==
    /\ wrappers["sync_int"].arg # Null
    /\ Constructed("sync_copy")
    /\ wrappers["sync_copy"].res # wrappers["sync_int"].res
    /\ \E t \in Threads, g \in GuardIds :
          /\ pc[t] = "ctor"
          /\ ctor[t].lock
          /\ Owning(g)
          /\ guards[g].owner # t
          /\ \/ ObtainedThrough(ctor[t].g, "sync_copy") /\ ObtainedThrough(g, "sync_int")
             \/ ObtainedThrough(ctor[t].g, "sync_int") /\ ObtainedThrough(g, "sync_copy")

\* C15 as stated: a wrapper that holds its resource_ by value holds its mutex_
\* by value as well, and that mutex is shared with no other wrapper.
C15_Original ==
    \A w \in WrapperIds :
        wrappers[w].res = Own(w) =>
            /\ wrappers[w].mtx = Own(w)
            /\ \A w2 \in WrapperIds \ {w} : wrappers[w2].mtx # wrappers[w].mtx

\* C15, amended: a wrapper that holds its resource_ by value holds its mutex_ by
\* value when its constructor was given no mutex, and refers to the mutex it
\* was given when Mutex is a reference type; either way another wrapper refers
\* to the same mutex only if it was constructed to share it.
C15_ValueLockUnlessGiven ==
    \A w \in WrapperIds :
        wrappers[w].res = Own(w) =>
            /\ wrappers[w].arg = Null => wrappers[w].mtx = Own(w)
            /\ wrappers[w].arg # Null => wrappers[w].mtx = wrappers[w].arg
            /\ \A w2 \in WrapperIds \ {w} :
                  wrappers[w2].mtx = wrappers[w].mtx => SharedByConstruction(w, w2)

\* C15 witness: child_instance (value resource, no mutex given) and sync_int
\* (value resource, mutex given by reference) are locked at the same time, each
\* in its own domain, while a thread waits in lock() on reference, which
\* shares sync_int's mutex.
C15_Witness ==
    /\ wrappers["child_instance"].res = Own("child_instance")
    /\ wrappers["child_instance"].arg = Null
    /\ wrappers["sync_int"].res = Own("sync_int")
    /\ wrappers["sync_int"].arg = ExtMutex
    /\ \E g, h \in GuardIds, t \in Threads :
          /\ Owning(g) /\ ObtainedThrough(g, "child_instance")
          /\ Owning(h) /\ ObtainedThrough(h, "sync_int")
          /\ pc[t] = "ctor"
          /\ ObtainedThrough(ctor[t].g, "reference")

\* C16: the destructor of an Owning locked_ptr is the only place where
\* mutex_.unlock() is called.  A step changes count_unlock of a mutex, or
\* frees it, only by destroying an Owning locked_ptr on it; a mutex becomes
\* held only when a constructor called by lock() returns; and the construction,
\* copy and conversion of a wrapper, the call of lock() itself, a move
\* construction and an access through operator* leave every mutex as it is.
C16_DtorSoleRelease ==
    [][/\ \A m \in Mutexes :
            /\ (count_unlock'[m] # count_unlock[m] \/ (is_locked[m] /\ ~is_locked'[m])) =>
                  /\ \E g \in GuardIds : Owning(g) /\ guards[g].mtx = m /\ Destroyed(g)
                  /\ count_unlock'[m] = count_unlock[m] + 1
            /\ (~is_locked[m] /\ is_locked'[m]) =>
                  \E g \in GuardIds :
                      CtorReturns(g) /\ guards[g].mtx = m /\ guards[g].ptr # Null
       /\ (\/ wrappers' # wrappers
           \/ value' # value
           \/ written' # written
           \/ \E g \in GuardIds : MovedInto(g)
           \/ \E t \in Threads : pc[t] = "idle" /\ pc'[t] = "ctor") =>
              UNCHANGED <<is_locked, count_lock, count_unlock>>]_vars

\* C16 witness: the mutex was locked twice and unlocked once, by a destructor;
\* sync_view and sync_copy have been constructed, the resource has been written
\* through operator*, and the Owning locked_ptr was move-constructed.
C16_Witness ==
    /\ Constructed("sync_view")
    /\ Constructed("sync_copy")
    /\ count_lock[ExtMutex] = 2
    /\ count_unlock[ExtMutex] = 1
    /\ is_locked[ExtMutex]
    /\ \E g \in GuardIds :
          /\ Owning(g)
          /\ guards[g].moves >= 1
          /\ guards[g].mtx = ExtMutex
          /\ written[operator_star(g)] # <<>>

\* C17: the state of the resource is carried across locked_ptr objects.
\* sync_int is constructed from InitialValue: a lock() on its resource that
\* returns before any write yields a locked_ptr whose dereference is
\* InitialValue, and one that returns later yields the value last written.
\* The value of a resource changes only by an assignment through an Owning
\* locked_ptr<Resource> on it, which stores what was assigned, or when the
\* resource is the new member of a copy, which starts with the original's value.
C17_ValueCarried ==
    [][/\ \A g \in GuardIds :
            (CtorReturns(g) /\ guards[g].ptr = wrappers["sync_int"].res) =>
                value'[guards[g].ptr] =
                    IF written[guards[g].ptr] = <<>>
                    THEN InitialValue
                    ELSE written[guards[g].ptr][1]
       /\ \A r \in Resources :
            value'[r] # value[r] =>
                \/ /\ \E g \in GuardIds :
                         /\ Owning(g)
                         /\ surface[g] = locked_mutable_ptr
                         /\ operator_star(g) = r
                   /\ written'[r] = <<value'[r]>>
                \/ /\ CopyReads(wrappers["sync_int"].res)
                   /\ r = wrappers'["sync_copy"].res
                   /\ r # wrappers["sync_int"].res
                   /\ value'[r] = value[wrappers["sync_int"].res]]_vars

\* C17 witness: sync_copy was copied before any write and still holds
\* InitialValue; then WrittenValue was assigned through a locked_ptr of
\* sync_int, that locked_ptr was destroyed, and a second locked_ptr, of type
\* locked_const_ptr, is Owning and reads WrittenValue.
C17_Witness ==
    /\ Constructed("sync_copy")
    /\ value[wrappers["sync_copy"].res] = InitialValue
    /\ written[wrappers["sync_copy"].res] = <<>>
    /\ \E g \in GuardIds :
          /\ Owning(g)
          /\ ObtainedThrough(g, "sync_int")
          /\ surface[g] = locked_const_ptr
          /\ guards[g].moves = 0
          /\ cycles[guards[g].mtx] = 1
          /\ count_lock[guards[g].mtx] = 2
          /\ written[operator_star(g)] = <<WrittenValue>>
          /\ value[operator_star(g)] = WrittenValue

\* w2 is what the aliasing conversion from w1 constructs
Converted(w2, w1) ==
    w1 # w2 /\ wrappers[w2] = synchronized_convert(w2, TRUE, wrappers[w1])

\* the Owning locked_ptr objects that point at resource r
OwningAt(r) == {g \in GuardIds : Owning(g) /\ guards[g].ptr = r}

\* C18 as stated: any two wrappers that refer to the same resource refer to the
\* same mutex, so at most one Owning locked_ptr points at a resource.
C18_Original ==
    /\ \A w1, w2 \in ViewIds :
          wrappers[w1].res = wrappers[w2].res => wrappers[w1].mtx = wrappers[w2].mtx
    /\ \A r \in Resources : Cardinality(OwningAt(r)) <= 1

\* C18, amended: a wrapper built from another by the aliasing conversion, with
\* a reference-typed mutex, refers to the other's resource and to the other's
\* mutex, so at most one Owning locked_ptr obtained through the two exists at
\* any instant.  Wrappers constructed separately on one object with different
\* mutexes are not kept apart.
C18_ConvertedViewsExclude ==
    \A w1, w2 \in ViewIds :
        Converted(w2, w1) =>
            /\ wrappers[w2].res = wrappers[w1].res
            /\ wrappers[w2].mtx = wrappers[w1].mtx
            /\ Cardinality({g \in GuardIds :
                    Owning(g) /\ (ObtainedThrough(g, w1) \/ ObtainedThrough(g, w2))}) <= 1

\* C18 witness: a locked_ptr of reference is Owning and a thread waits inside
\* base_reference.lock(), while a locked_ptr of reference_2, on the same
\* object and another mutex, is Owning too.
C18_Witness ==
    /\ Converted("base_reference", "reference")
    /\ \E g, h \in GuardIds, t \in Threads :
          /\ Owning(g) /\ ObtainedThrough(g, "reference")
          /\ Owning(h) /\ ObtainedThrough(h, "reference_2")
          /\ guards[g].ptr = guards[h].ptr
          /\ pc[t] = "ctor"
          /\ ctor[t].lock
          /\ ObtainedThrough(ctor[t].g, "base_reference")

\* thread t is inside lock() on a mutex on which it holds an Owning locked_ptr
SelfBlocked(t) ==
    /\ pc[t] = "ctor"
    /\ ctor[t].lock
    /\ guards[ctor[t].g].ptr # Null
    /\ \E h \in GuardIds :
          Owning(h) /\ guards[h].owner = t /\ guards[h].mtx = guards[ctor[t].g].mtx

\* C19 as stated: a thread that calls lock() on a wrapper of a mutex on which
\* it holds an Owning locked_ptr blocks forever: whatever happens, it is still
\* inside that call.
C19_Original ==
    [][\A t \in Threads : SelfBlocked(t) => SelfBlocked(t)']_vars

\* C19, amended: a thread that calls lock() on a wrapper of a mutex on which it
\* holds an Owning locked_ptr never gets a locked_ptr from the call: it stays
\* inside the call, with the mutex held, unless mutex_.lock() itself throws, and
\* then the exception leaves lock() as it is and no locked_ptr is constructed.
C19_NoReentrantReturn ==
    [][\A t \in Threads :
          SelfBlocked(t) =>
              /\ ~CtorReturns(ctor[t].g)
              /\ is_locked'[guards[ctor[t].g].mtx]
              /\ \/ SelfBlocked(t)'
                 \/ /\ CtorThrows(ctor[t].g)
                    /\ thrown'.raised \in LockErrors
                    /\ thrown'.out = thrown'.raised]_vars

\* C19 witness: a thread holds the Owning locked_ptr of sync_int.lock() and is
\* inside reference.lock(), on the same mutex, which no other thread holds.
C19_Witness ==
    \E t \in Threads, h \in GuardIds :
        /\ SelfBlocked(t)
        /\ Owning(h)
        /\ guards[h].owner = t
        /\ ObtainedThrough(h, "sync_int")
        /\ ObtainedThrough(ctor[t].g, "reference")
        /\ OwningOn(guards[h].mtx) = {h}

\* C20: a move construction from a Released locked_ptr (constructed with
\* nullptr, or moved from before) is inert.  The new object is Owning only if
\* an Owning object handed its pointer over, so from a Released source it is
\* Released; every Released object stays Released; the step calls neither
\* lock() nor unlock(); and the destruction of a Released object calls no
\* unlock() and leaves the mutex as it is.
C20_MoveFromReleasedInert ==
    [][\A g \in GuardIds :
          /\ MovedInto(g) =>
                /\ guards'[g].ptr # Null =>
                      \E other \in GuardIds \ {g} :
                          /\ Owning(other)
                          /\ Released(other)'
                          /\ guards[other].owner = guards'[g].owner
                /\ \A other \in GuardIds \ {g} : Released(other) => Released(other)'
                /\ UNCHANGED <<is_locked, count_lock, count_unlock, lock_threw, unlock_threw>>
          /\ (Released(g) /\ Destroyed(g)) =>
                UNCHANGED <<is_locked, count_lock, count_unlock, lock_threw, unlock_threw>>]_vars

\* C20 witness: a locked_ptr constructed with nullptr was moved from: source and
\* destination are alive and Released, the destination of a further move from
\* one of them has been destroyed, and neither lock() nor unlock() of the
\* mutex was ever called.
C20_Witness ==
    \E src, dst, gone \in GuardIds :
        /\ Released(src) /\ guards[src].moves = 0
        /\ Released(dst) /\ guards[dst].moves = 1
        /\ guards[src].owner = guards[dst].owner
        /\ guards[src].mtx = ExtMutex /\ guards[dst].mtx = ExtMutex
        /\ guards[gone].status = "dead"
        /\ count_lock[ExtMutex] = 0
        /\ count_unlock[ExtMutex] = 0
        /\ lock_threw[ExtMutex] = 0
        /\ ~is_locked[ExtMutex]
====
